---- MODULE Spec2Model ----
(***************************************************************************)
(* The Weather component of Gani-23/WeatherApp as a state machine.         *)
(*                                                                         *)
(* The repository holds two variants of the component:                     *)
(*   "rich"   : src/unnamed/part_000                                       *)
(*   "simple" : src/src/Containers/Weather.tsx                             *)
(* Both have the same four useState cells, the same effect, the same       *)
(* handlers; they differ in how temperatures are rendered.  The variable   *)
(* `variant` fixes at mount which of the two is running.                   *)
(*                                                                         *)
(* JavaScript values are records tagged with their type, so that null, a   *)
(* string and an object can be compared.  Texts are sequences of           *)
(* characters.  Temperatures are integers counting tenths of a degree.     *)
(* An event handler, the state updates it batches and the effect flushed   *)
(* after the commit are one atomic step (React 18 batching).               *)
(***************************************************************************)
EXTENDS Integers, Sequences, FiniteSets, TLC

VARIABLES
    variant,        \* which source file is mounted
    weatherData,    \* useState<WeatherData | null>
    searchQuery,    \* useState<string>
    error,          \* useState<string | null>
    tempUnit,       \* useState<'C' | 'F'>
    requests,       \* every axios.get issued so far, with its response once delivered
    submits,        \* observation: number of form submissions so far
    validSubmits,   \* observation: submissions whose text is non-empty after trimming
    lastOp,         \* observation: the operation that produced this state
    unitBefore      \* observation: tempUnit before that operation

vars == <<variant, weatherData, searchQuery, error, tempUnit, requests,
          submits, validSubmits, lastOp, unitBefore>>

----------------------------------------------------------------------------
(* Bounds *)

MaxSubmits == 3

----------------------------------------------------------------------------
(* JavaScript values *)

NullV == [type |-> "null"]

StrV(s) == [type |-> "string", val |-> s]

\* JavaScript truthiness, as used by `error &&` and `weatherData &&`
Truthy(v) ==
    CASE v.type = "null" -> FALSE
      [] v.type = "string" -> v.val # ""
      [] OTHER -> TRUE

ErrorMessage == "Location is not available"

----------------------------------------------------------------------------
(* Location texts typed into the form: sequences of characters *)

Texts == { <<>>, <<" ">>, <<"L">>, <<"T">> }

RECURSIVE TrimLeft(_)
TrimLeft(t) ==
    IF t = <<>> THEN <<>>
    ELSE IF Head(t) = " " THEN TrimLeft(Tail(t)) ELSE t

RECURSIVE TrimRight(_)
TrimRight(t) ==
    IF t = <<>> THEN <<>>
    ELSE IF t[Len(t)] = " " THEN TrimRight(SubSeq(t, 1, Len(t) - 1)) ELSE t

\* String.prototype.trim; the notion of a valid submission (spec 4.1)
Trim(t) == TrimRight(TrimLeft(t))

IsValidText(t) == Trim(t) # <<>>

\* `if (searchQuery)`: a string is truthy iff it is not the empty string
QueryTruthy(q) == q # <<>>

----------------------------------------------------------------------------
(* Provider responses *)

Day(d, maxc, minc) ==
    [date |-> d, maxtemp_c |-> maxc, mintemp_c |-> minc]

\* Two well-formed payload bodies (temperatures in tenths of a degree)
Body1 ==
    [temp_c |-> 200, temp_f |-> 680,
     forecastday |-> << Day(1, 200, 100), Day(2, 215, 101), Day(3, 180, 90),
                        Day(4, 250, 120), Day(5, 0, -50) >>]

Body2 ==
    [temp_c |-> 1, temp_f |-> 322,
     forecastday |-> << Day(1, 1, -178), Day(2, 37, 0), Day(3, 100, 55),
                        Day(4, 1000, 999), Day(5, 123, 45) >>]

\* A body with every field present but only three forecast days, although
\* the request asks for days=5
Body3 ==
    [temp_c |-> 200, temp_f |-> 680,
     forecastday |-> << Day(1, 200, 100), Day(2, 215, 101), Day(3, 180, 90) >>]

OkData(q, b) ==
    [type |-> "object", shape |-> "ok", name |-> q,
     temp_c |-> b.temp_c, temp_f |-> b.temp_f, forecastday |-> b.forecastday]

\* A 2xx response whose JSON body is an object lacking the fields read by the renderer
MissingFieldsData(q) == [type |-> "object", shape |-> "missing", name |-> q]

\* What a fetch for q can resolve to: the promise is rejected (network error
\* or non-2xx status), or fulfilled with response.data being a well-formed
\* body (of five or of fewer forecast days), an object of the wrong shape,
\* or JSON null.
Outcomes(q) ==
    { [settled |-> "rejected", data |-> NullV] } \cup
    { [settled |-> "fulfilled", data |-> d] :
        d \in { OkData(q, Body1), OkData(q, Body2), OkData(q, Body3),
                MissingFieldsData(q), NullV } }

Pending == [settled |-> "pending", data |-> NullV]

----------------------------------------------------------------------------
(* Rendering.  A rendered number is the text React puts in the DOM: its     *)
(* value in tenths, how many decimals are printed, and whether a minus sign *)
(* is printed.                                                              *)

\* String(n) for a number n with at most one decimal: "20", "20.3", "-5"
NumberText(t) ==
    [tenths |-> t, decimals |-> IF t % 10 = 0 THEN 0 ELSE 1, minus |-> t < 0]

\* (c * 9/5) + 32 for c given in tenths, result in hundredths (exact)
Fahrenheit100(t) == t * 18 + 3200

\* Number.prototype.toFixed(1) of a value given in hundredths: always one
\* decimal, rounded to the nearest tenth ("68.0", "32.2", "-0.0")
ToFixed1(h) ==
    [tenths |-> (h + 5) \div 10, decimals |-> 1, minus |-> h < 0]

\* Number(text): the numeric value of a printed number, in tenths
NumberOf(text) == text.tenths

\* {value}°{tempUnit}
WithUnit(text, unit) == [text |-> text, unit |-> unit]

\* <h2> of the current-conditions panel
RenderCurrent(v, data, unit) ==
    IF v = "rich"
    THEN WithUnit(IF unit = "C" THEN NumberText(data.temp_c)
                  ELSE ToFixed1(Fahrenheit100(data.temp_c)), unit)
    ELSE WithUnit(IF unit = "C" THEN NumberText(data.temp_c)
                  ELSE NumberText(data.temp_f), unit)

\* The maxTemp / minTemp prop computed by Weather for one forecast day
CardProp(v, celsius, unit) ==
    IF v = "rich"
    THEN NumberOf(IF unit = "C" THEN NumberText(celsius)
                  ELSE ToFixed1(Fahrenheit100(celsius)))
    ELSE celsius

\* "Max temp:" / "Min temp:" line of ForecastCard for prop value p
ForecastCardTemp(v, p, unit) ==
    IF v = "rich"
    THEN WithUnit(IF unit = "C" THEN NumberText(p)
                  ELSE ToFixed1(Fahrenheit100(p)), unit)
    ELSE WithUnit(IF unit = "C" THEN NumberText(p) ELSE NumberText(p), unit)

ForecastCard(v, day, unit) ==
    [date |-> day.date,
     max |-> ForecastCardTemp(v, CardProp(v, day.maxtemp_c, unit), unit),
     min |-> ForecastCardTemp(v, CardProp(v, day.mintemp_c, unit), unit)]

\* The view tree of the component, as far as the claims read it.  Reading
\* weatherData.location.name of an object without these fields throws, and
\* the component tree is torn down.
Render ==
    IF Truthy(weatherData) /\ weatherData.shape # "ok"
    THEN [crashed |-> TRUE, errorText |-> <<>>, current |-> <<>>, cards |-> <<>>]
    ELSE [crashed |-> FALSE,
          errorText |-> IF Truthy(error) THEN <<error.val>> ELSE <<>>,
          current |-> IF Truthy(weatherData)
                      THEN <<RenderCurrent(variant, weatherData, tempUnit)>>
                      ELSE <<>>,
          cards |-> IF Truthy(weatherData)
                    THEN [i \in 1..Len(weatherData.forecastday) |->
                            ForecastCard(variant, weatherData.forecastday[i], tempUnit)]
                    ELSE <<>>]

----------------------------------------------------------------------------
(* Initial state: the component after mount.  The mount effect runs with    *)
(* searchQuery = '' and issues nothing.                                     *)

Init ==
    /\ variant \in {"rich", "simple"}
    /\ weatherData = NullV
    /\ searchQuery = <<>>
    /\ error = NullV
    /\ tempUnit = "C"
    /\ requests = <<>>
    /\ submits = 0
    /\ validSubmits = 0
    /\ lastOp = "mount"
    /\ unitBefore = "C"

----------------------------------------------------------------------------
(* Operations *)

\* The effect body, run after a commit in which searchQuery changed to q
useEffect(q) ==
    IF QueryTruthy(q)
    THEN requests' = Append(requests, [q |-> q, resp |-> Pending])
    ELSE requests' = requests

\* Form submission with text t
handleSearch(t) ==
    /\ submits < MaxSubmits
    /\ searchQuery' = t
    /\ IF t # searchQuery
       THEN useEffect(t)            \* dependency [searchQuery] changed
       ELSE requests' = requests    \* same state: no re-render, no effect
    /\ submits' = submits + 1
    /\ validSubmits' = IF IsValidText(t) THEN validSubmits + 1 ELSE validSubmits
    /\ lastOp' = IF IsValidText(t) THEN "submitValid" ELSE "submitBlank"
    /\ unitBefore' = tempUnit
    /\ UNCHANGED <<variant, weatherData, error, tempUnit>>

\* setTempUnit('F') instead of flipping
toggleTempUnit_alwaysF ==
    /\ tempUnit' = "F"
    /\ lastOp' = "toggle"
    /\ unitBefore' = tempUnit
    /\ UNCHANGED <<variant, weatherData, searchQuery, error, requests,
                   submits, validSubmits>>

toggleTempUnit ==
    /\ tempUnit' = IF tempUnit = "C" THEN "F" ELSE "C"
    /\ lastOp' = "toggle"
    /\ unitBefore' = tempUnit
    /\ UNCHANGED <<variant, weatherData, searchQuery, error, requests,
                   submits, validSubmits>>

\* .then callback of request i
onFulfilled(i, o) ==
    /\ o.settled = "fulfilled"
    /\ weatherData' = o.data
    /\ error' = NullV

\* .catch callback that forgets setWeatherData(null)
onRejected_keepData(i, o) ==
    /\ o.settled = "rejected"
    /\ error' = StrV(ErrorMessage)
    /\ weatherData' = weatherData

\* .catch callback of request i
onRejected(i, o) ==
    /\ o.settled = "rejected"
    /\ error' = StrV(ErrorMessage)
    /\ weatherData' = NullV

\* The response of pending request i arrives with outcome o
deliver(i, o) ==
    /\ requests[i].resp = Pending
    /\ requests' = [requests EXCEPT ![i].resp = o]
    /\ (onFulfilled(i, o) \/ onRejected(i, o))
    /\ lastOp' = "response"
    /\ unitBefore' = tempUnit
    /\ UNCHANGED <<variant, searchQuery, tempUnit, submits, validSubmits>>

Next ==
    \/ \E t \in Texts : handleSearch(t)
    \/ toggleTempUnit
    \/ \E i \in 1..Len(requests) : \E o \in Outcomes(requests[i].q) : deliver(i, o)

Spec == Init /\ [][Next]_vars

----------------------------------------------------------------------------
(* Vocabulary of the claims *)

AllDelivered == \A i \in 1..Len(requests) : requests[i].resp # Pending

SomePending == \E i \in 1..Len(requests) : requests[i].resp = Pending

SomeDelivered == \E i \in 1..Len(requests) : requests[i].resp # Pending

\* The result a fetch outcome stands for, as the pair <<weatherData, error>>
ResultOf(o) ==
    IF o.settled = "fulfilled" THEN <<o.data, NullV>>
    ELSE <<NullV, StrV(ErrorMessage)>>

\* toDisplay of spec 4.2: the value in tenths shown for a stored Celsius value
ToDisplayTenths(celsius, unit) ==
    IF unit = "C" THEN celsius ELSE (Fahrenheit100(celsius) + 5) \div 10

IsSuccess == Truthy(weatherData) /\ weatherData.shape = "ok"

----------------------------------------------------------------------------
\* C1: once the responses of two valid submissions A then B have both been
\* delivered, in whatever order, the stored result (weatherData, error) is
\* the outcome of B's fetch.
C1_StaleResponseGuard ==
    (/\ Len(requests) = 2
     /\ IsValidText(requests[1].q) /\ IsValidText(requests[2].q)
     /\ AllDelivered)
    => <<weatherData, error>> = ResultOf(requests[2].resp)

\* C2: submitting an empty or whitespace-only text changes neither
\* searchQuery, weatherData, error nor tempUnit and issues no fetch.
C2_BlankSubmitIsNoOp ==
    [][lastOp' = "submitBlank" =>
        UNCHANGED <<searchQuery, weatherData, error, tempUnit, requests>>]_vars

\* C3: the number of fetch requests issued equals the number of valid
\* submissions made so far.
C3_OneFetchPerValidSubmit == Len(requests) = validSubmits

\* C4: applying a failed fetch sets error to exactly "Location is not
\* available" and weatherData to null, whatever the result was before.
C4_FailureSetsMessageAndClearsData ==
    [][(/\ lastOp' = "response"
        /\ \E i \in 1..Len(requests) :
              requests[i].resp = Pending /\ requests'[i].resp.settled = "rejected")
       => (error' = StrV("Location is not available") /\ weatherData' = NullV)]_vars

\* C4 witness: a Success was stored, then the second fetch failed and was applied.
C4_Witness ==
    /\ Len(requests) = 2
    /\ requests[1].resp.settled = "fulfilled"
    /\ requests[1].resp.data.type = "object"
    /\ requests[1].resp.data.shape = "ok"
    /\ requests[2].resp.settled = "rejected"
    /\ lastOp = "response"
    /\ weatherData = NullV
    /\ error = StrV("Location is not available")

\* C5: a 2xx response whose body lacks the expected fields is never stored
\* as weatherData and never reaches the renderer.
C5_MalformedPayloadNeverStored ==
    /\ Truthy(weatherData) => weatherData.shape = "ok"
    /\ ~Render.crashed

\* C6: a toggle flips tempUnit between C and F, leaves searchQuery,
\* weatherData and error unchanged, issues no fetch, and a toggle that
\* directly follows a toggle restores the unit held before the first one.
C6_ToggleFlipsUnitOnly ==
    [][lastOp' = "toggle" =>
        /\ tempUnit \in {"C", "F"} /\ tempUnit' \in {"C", "F"}
        /\ tempUnit' # tempUnit
        /\ UNCHANGED <<searchQuery, weatherData, error, requests>>
        /\ (lastOp = "toggle" => tempUnit' = unitBefore)]_vars

\* C6 witness: the unit has been toggled back to Celsius while a result is
\* stored and a fetch is in flight.
C6_Witness ==
    /\ lastOp = "toggle"
    /\ tempUnit = "C"
    /\ unitBefore = "F"
    /\ IsSuccess
    /\ SomePending

\* C7: every forecast card of a Success snapshot shows toDisplay of the
\* stored Celsius max and min, with the selected unit as suffix.
C7_ForecastCardsConvertOnce ==
    IsSuccess =>
        \A i \in 1..Len(weatherData.forecastday) :
            /\ Len(Render.cards) = Len(weatherData.forecastday)
            /\ Render.cards[i].max.unit = tempUnit
            /\ Render.cards[i].min.unit = tempUnit
            /\ NumberOf(Render.cards[i].max.text) =
                   ToDisplayTenths(weatherData.forecastday[i].maxtemp_c, tempUnit)
            /\ NumberOf(Render.cards[i].min.text) =
                   ToDisplayTenths(weatherData.forecastday[i].mintemp_c, tempUnit)

\* C8: the current temperature of a Success snapshot is rendered from temp_c
\* only: temp_c as printed with suffix C, or temp_c*9/5+32 with exactly one
\* decimal and suffix F.
C8_CurrentTempFromCelsius ==
    IsSuccess =>
        /\ Len(Render.current) = 1
        /\ Render.current[1].unit = tempUnit
        /\ Render.current[1].text =
              IF tempUnit = "C" THEN NumberText(weatherData.temp_c)
              ELSE [tenths |-> ToDisplayTenths(weatherData.temp_c, "F"),
                    decimals |-> 1,
                    minus |-> Fahrenheit100(weatherData.temp_c) < 0]

\* C9: weatherData and error are never both non-null; both are null until
\* the first response is applied; afterwards exactly one of them is non-null.
C9_ResultIsOneVariant ==
    /\ ~(weatherData # NullV /\ error # NullV)
    /\ ~SomeDelivered => (weatherData = NullV /\ error = NullV)
    /\ SomeDelivered => (weatherData # NullV) # (error # NullV)

\* C10: a valid submission made while result = Failure issues a new fetch.
C10_RetryAfterFailureFetches ==
    [][(/\ error # NullV
        /\ weatherData = NullV
        /\ lastOp' = "submitValid")
       => Len(requests') = Len(requests) + 1]_vars

\* C11: whenever result = Success the renderer produces exactly 5 forecast
\* panels, and panel i shows entry i of the stored forecastday sequence.
C11_FiveForecastPanelsInOrder ==
    IsSuccess =>
        /\ Len(Render.cards) = 5
        /\ \A i \in 1..Len(Render.cards) :
              Render.cards[i].date = weatherData.forecastday[i].date

====
